---- MODULE Spec2Model ----
(***************************************************************************)
(* FacebookConversationAnalysis: extraction of message records from an    *)
(* exported chat document, the pickle cache of the four parallel lists,   *)
(* and the statistics computed over them.                                 *)
(*                                                                         *)
(* Text that the program converts (timestamps, dates, times) is a         *)
(* sequence of one-character strings, so that replace, strptime, strftime *)
(* and string comparison are computed character by character.  Sender     *)
(* names and message bodies are never taken apart and stay atomic.        *)
(***************************************************************************)
EXTENDS Integers, Sequences, FiniteSets, TLC

(***************************************************************************)
(* Bounds of the model.                                                    *)
(***************************************************************************)
MaxThreads == 2
MaxMsgs == 2
MaxRuns == 3
MaxTimes == 3
MaxDates == 3
MaxAvgDates == 2

(***************************************************************************)
(* Characters and numbers.                                                 *)
(***************************************************************************)
Digits == <<"0","1","2","3","4","5","6","7","8","9">>

IsDigit(c) == \E i \in 1..10 : Digits[i] = c

DigitVal(c) == (CHOOSE i \in 1..10 : Digits[i] = c) - 1

\* code point of the characters that occur in "HH:MM" and "DD/MM/YY" text
Ord(c) ==
  IF c = "/" THEN 47
  ELSE IF IsDigit(c) THEN 48 + DigitVal(c)
  ELSE IF c = ":" THEN 58
  ELSE 0

AllDigits(s) == \A i \in 1..Len(s) : IsDigit(s[i])

RECURSIVE ToInt(_)
ToInt(s) ==
  IF s = <<>> THEN 0
  ELSE 10 * ToInt(SubSeq(s, 1, Len(s) - 1)) + DigitVal(s[Len(s)])

\* '%02d'
TwoDigits(k) == <<Digits[((k \div 10) % 10) + 1], Digits[(k % 10) + 1]>>

\* str < str of Python: lexicographic on code points, a proper prefix is smaller
RECURSIVE StrLess(_, _)
StrLess(a, b) ==
  IF b = <<>> THEN FALSE
  ELSE IF a = <<>> THEN TRUE
  ELSE IF Ord(Head(a)) < Ord(Head(b)) THEN TRUE
  ELSE IF Ord(Head(a)) > Ord(Head(b)) THEN FALSE
  ELSE StrLess(Tail(a), Tail(b))

IsPrefixAt(s, old, i) ==
  /\ i + Len(old) - 1 <= Len(s)
  /\ SubSeq(s, i, i + Len(old) - 1) = old

\* str.replace(old, ""): every non-overlapping occurrence, left to right
RECURSIVE Replace(_, _)
Replace(s, old) ==
  IF s = <<>> THEN <<>>
  ELSE IF IsPrefixAt(s, old, 1) THEN Replace(SubSeq(s, Len(old) + 1, Len(s)), old)
  ELSE <<Head(s)>> \o Replace(Tail(s), old)

\* the fields of s between runs of spaces
RECURSIVE SplitAcc(_, _, _)
SplitAcc(s, cur, acc) ==
  IF s = <<>> THEN (IF cur = <<>> THEN acc ELSE Append(acc, cur))
  ELSE IF Head(s) = " "
       THEN SplitAcc(Tail(s), <<>>, IF cur = <<>> THEN acc ELSE Append(acc, cur))
       ELSE SplitAcc(Tail(s), Append(cur, Head(s)), acc)

Split(s) == SplitAcc(s, <<>>, <<>>)

(***************************************************************************)
(* Calendar.                                                               *)
(***************************************************************************)
WeekdayNames ==
  { <<"M","o","n","d","a","y">>, <<"T","u","e","s","d","a","y">>,
    <<"W","e","d","n","e","s","d","a","y">>, <<"T","h","u","r","s","d","a","y">>,
    <<"F","r","i","d","a","y">>, <<"S","a","t","u","r","d","a","y">>,
    <<"S","u","n","d","a","y">> }

MonthNames ==
  << <<"J","a","n","u","a","r","y">>, <<"F","e","b","r","u","a","r","y">>,
     <<"M","a","r","c","h">>, <<"A","p","r","i","l">>, <<"M","a","y">>,
     <<"J","u","n","e">>, <<"J","u","l","y">>, <<"A","u","g","u","s","t">>,
     <<"S","e","p","t","e","m","b","e","r">>, <<"O","c","t","o","b","e","r">>,
     <<"N","o","v","e","m","b","e","r">>, <<"D","e","c","e","m","b","e","r">> >>

\* the zone names '%Z' accepts when the local zone is UTC
ZoneNames == { <<"U","T","C">>, <<"G","M","T">> }

IsLeap(y) == (y % 4 = 0 /\ y % 100 # 0) \/ y % 400 = 0

DaysInMonth(y, m) ==
  IF m = 2 THEN (IF IsLeap(y) THEN 29 ELSE 28)
  ELSE IF m \in {4, 6, 9, 11} THEN 30
  ELSE 31

\* datetime.toordinal: days since 01/01/0001, which is day 1
RECURSIVE DaysBeforeMonth(_, _)
DaysBeforeMonth(y, m) ==
  IF m = 1 THEN 0 ELSE DaysBeforeMonth(y, m - 1) + DaysInMonth(y, m - 1)

ToOrdinal(y, m, d) ==
  LET p == y - 1
  IN  p * 365 + (p \div 4) - (p \div 100) + (p \div 400) + DaysBeforeMonth(y, m) + d

NoDate == [ok |-> FALSE, year |-> 0, month |-> 0, day |-> 0, hour |-> 0, minute |-> 0]

MkDate(y, m, d, hh, mm) ==
  IF /\ m \in 1..12 /\ d >= 1 /\ d <= DaysInMonth(y, m)
     /\ hh \in 0..23 /\ mm \in 0..59
  THEN [ok |-> TRUE, year |-> y, month |-> m, day |-> d, hour |-> hh, minute |-> mm]
  ELSE NoDate

OneOrTwoDigits(s) == Len(s) \in 1..2 /\ AllDigits(s)

\* dt.strptime(s, '%A, %d %B %Y at %H:%M %Z'); ok = FALSE is ValueError
StrptimeFull(s) ==
  LET f == Split(s)
  IN  IF Len(f) # 7 THEN NoDate
      ELSE LET wd == f[1]
               hm == f[6]
               colon == IF \E i \in 1..Len(hm) : hm[i] = ":"
                        THEN CHOOSE i \in 1..Len(hm) :
                               hm[i] = ":" /\ \A j \in 1..(i - 1) : hm[j] # ":"
                        ELSE 0
               hh == SubSeq(hm, 1, colon - 1)
               mm == SubSeq(hm, colon + 1, Len(hm))
           IN  IF /\ Len(wd) >= 2
                  /\ wd[Len(wd)] = ","
                  /\ SubSeq(wd, 1, Len(wd) - 1) \in WeekdayNames
                  /\ OneOrTwoDigits(f[2])
                  /\ \E m \in 1..12 : MonthNames[m] = f[3]
                  /\ Len(f[4]) = 4 /\ AllDigits(f[4])
                  /\ f[5] = <<"a","t">>
                  /\ colon > 0
                  /\ OneOrTwoDigits(hh)
                  /\ OneOrTwoDigits(mm)
                  /\ f[7] \in ZoneNames
               THEN MkDate(ToInt(f[4]), CHOOSE m \in 1..12 : MonthNames[m] = f[3],
                           ToInt(f[2]), ToInt(hh), ToInt(mm))
               ELSE NoDate

\* full_date.strftime('%d/%m/%y')
StrftimeDate(d) ==
  TwoDigits(d.day) \o <<"/">> \o TwoDigits(d.month) \o <<"/">> \o TwoDigits(d.year % 100)

\* full_date.strftime('%H:%M')
StrftimeTime(d) == TwoDigits(d.hour) \o <<":">> \o TwoDigits(d.minute)

\* dt.strptime(s, '%d/%m/%y'): a two-digit year below 69 is 20yy, else 19yy
StrptimeDate(s) ==
  IF /\ Len(s) = 8 /\ s[3] = "/" /\ s[6] = "/"
     /\ AllDigits(SubSeq(s, 1, 2)) /\ AllDigits(SubSeq(s, 4, 5)) /\ AllDigits(SubSeq(s, 7, 8))
  THEN LET yy == ToInt(SubSeq(s, 7, 8))
       IN  MkDate(IF yy < 69 THEN 2000 + yy ELSE 1900 + yy,
                  ToInt(SubSeq(s, 4, 5)), ToInt(SubSeq(s, 1, 2)), 0, 0)
  ELSE NoDate

(***************************************************************************)
(* The exported document.  A document is the sequence of its "thread"     *)
(* elements, a thread the sequence of its "message" elements.  A message  *)
(* element carries the string of its "user" element, the string of the    *)
(* node that follows it (None when that node has no single string) and    *)
(* the string of its "meta" element.                                      *)
(***************************************************************************)
None == "<NoneType>"

\* str(x)
PyStr(x) == IF x = None THEN "None" ELSE x

Chat1 ==
  [user |-> "Alice", text |-> "hi there",
   meta |-> <<"W","e","d","n","e","s","d","a","y",","," ","1","5"," ","M","a","r","c","h"," ",
              "2","0","2","3"," ","a","t"," ","0","9",":","1","5"," ","U","T","C">>]

Chat2 ==
  [user |-> "Bob", text |-> None,
   meta |-> <<"T","u","e","s","d","a","y",","," ","1","4"," ","M","a","r","c","h"," ",
              "2","0","2","3"," ","a","t"," ","1","0",":","0","5"," ","U","T","C","+","0","1">>]

\* "+02" is not removed, and '%Z' does not accept "UTC+02"
Chat3 ==
  [user |-> "Alice", text |-> "",
   meta |-> <<"T","u","e","s","d","a","y",","," ","1","4"," ","M","a","r","c","h"," ",
              "2","0","2","3"," ","a","t"," ","0","9",":","4","5"," ","U","T","C","+","0","2">>]

Chats == {Chat1, Chat2, Chat3}

SeqsUpTo(S, k) == UNION {[1..j -> S] : j \in 0..k}

RECURSIVE CountMessages(_)
CountMessages(doc) ==
  IF doc = <<>> THEN 0 ELSE Len(Head(doc)) + CountMessages(Tail(doc))

\* every document of at most MaxThreads threads and MaxMsgs message elements
Documents ==
  {doc \in SeqsUpTo(SeqsUpTo(Chats, MaxMsgs), MaxThreads) : CountMessages(doc) <= MaxMsgs}

\* the documents the runs that share a cache are given
RunDocs ==
  { <<>>,
    << <<Chat1>>, <<Chat2>> >>,
    << <<Chat2>> >>,
    << <<Chat1, Chat3>> >> }

(***************************************************************************)
(* pickle: the opcodes pickle.dump writes for a list of str, and the      *)
(* stack machine of pickle.load.                                          *)
(***************************************************************************)
pickle_file_names ==
  <<"pickles/senders.pickle", "pickles/messages.pickle",
    "pickles/dates.pickle", "pickles/times.pickle">>

FileNames == {pickle_file_names[i] : i \in 1..4}

PickleDump(list) ==
  << <<"PROTO">>, <<"EMPTY_LIST">> >>
  \o (IF Len(list) = 0 THEN <<>>
      ELSE IF Len(list) = 1 THEN << <<"BINUNICODE", list[1]>>, <<"APPEND">> >>
      ELSE << <<"MARK">> >> \o [i \in 1..Len(list) |-> <<"BINUNICODE", list[i]>>]
           \o << <<"APPENDS">> >>)
  \o << <<"STOP">> >>

NoObject == [ok |-> FALSE, value |-> <<>>]

\* stack: the unpickler's stack; mark: the stack depth at the last MARK
RECURSIVE Unpickle(_, _, _)
Unpickle(bytes, stack, mark) ==
  IF bytes = <<>> THEN NoObject
  ELSE LET op == Head(bytes)
           rest == Tail(bytes)
           top == Len(stack)
       IN  IF op[1] = "PROTO" THEN Unpickle(rest, stack, mark)
           ELSE IF op[1] = "EMPTY_LIST" THEN Unpickle(rest, Append(stack, <<>>), mark)
           ELSE IF op[1] = "MARK" THEN Unpickle(rest, stack, top)
           ELSE IF op[1] = "BINUNICODE" THEN Unpickle(rest, Append(stack, op[2]), mark)
           ELSE IF op[1] = "APPEND" THEN
             IF top < 2 THEN NoObject
             ELSE Unpickle(rest,
                           SubSeq(stack, 1, top - 2) \o <<Append(stack[top - 1], stack[top])>>,
                           mark)
           ELSE IF op[1] = "APPENDS" THEN
             IF mark < 1 THEN NoObject
             ELSE Unpickle(rest,
                           SubSeq(stack, 1, mark - 1)
                             \o <<stack[mark] \o SubSeq(stack, mark + 1, top)>>,
                           0)
           ELSE IF op[1] = "STOP" THEN
             (IF top < 1 THEN NoObject ELSE [ok |-> TRUE, value |-> stack[top]])
           ELSE NoObject

PickleLoad(bytes) == Unpickle(bytes, <<>>, 0)

NoFile == [exists |-> FALSE, bytes |-> <<>>]

\* WriteFile as it would be if the file were opened with 'ab'
WriteFile_Appends(d, name, bytes) ==
  [d EXCEPT ![name] = [exists |-> TRUE, bytes |-> d[name].bytes \o bytes]]

\* open(name, 'wb') and pickle.dump(data, f)
WriteFile(d, name, bytes) == [d EXCEPT ![name] = [exists |-> TRUE, bytes |-> bytes]]

\* open(name, 'wb') alone: the file exists and is empty
Truncate(d, name) == [d EXCEPT ![name] = [exists |-> TRUE, bytes |-> <<>>]]

(***************************************************************************)
(* State.                                                                  *)
(*   disk           the files under pickles/, kept from run to run         *)
(*   run            the number of runs (processes) started so far          *)
(*   pc             where the constructor of the current run stands        *)
(*   html_file, get_data   the constructor's arguments                     *)
(*   thread_i, chat_i, users, msgs, dates, times                           *)
(*                  the loops and the lists of extract_data_from_html_file *)
(*   data, n        the constructor's locals                               *)
(*   self_data, total_msgs   the attributes the constructor sets           *)
(*   error          the exception that ended the run                       *)
(*   ret            what the last statistics call did                      *)
(* History of the calls made, kept to state properties of them:            *)
(*   saved, loaded  the names save_pickle / load_pickle completed for in   *)
(*                  this run, in order                                     *)
(*   extract_calls  the calls of extract_data_from_html_file that returned *)
(*                  in this run                                            *)
(*   disk0          the files as the run found them                        *)
(*   last_saved     per name, the list of the last completed save_pickle   *)
(*   save_count     per name, the number of completed save_pickle calls    *)
(*   cache_whole    no run has started saving without finishing since the  *)
(*                  files were last written by a run that saved all four   *)
(*   prev           how the run before this one ended                      *)
(***************************************************************************)
VARIABLES disk, run, pc, html_file, get_data,
          thread_i, chat_i, users, msgs, dates, times,
          data, n, self_data, total_msgs, error, ret,
          saved, loaded, extract_calls, disk0, last_saved, save_count,
          cache_whole, prev

vars == <<disk, run, pc, html_file, get_data,
          thread_i, chat_i, users, msgs, dates, times,
          data, n, self_data, total_msgs, error, ret,
          saved, loaded, extract_calls, disk0, last_saved, save_count,
          cache_whole, prev>>

extractVars == <<thread_i, chat_i, users, msgs, dates, times>>

callVars == <<html_file, get_data, run, disk0, prev>>

NoRet == [op |-> "none"]

NoPrev == [pc |-> "idle", get_data |-> FALSE, self_data |-> <<>>, total_msgs |-> 0]

Init ==
  /\ disk = [name \in FileNames |-> NoFile]
  /\ run = 0
  /\ pc = "idle"
  /\ html_file = <<>>
  /\ get_data = FALSE
  /\ thread_i = 1 /\ chat_i = 1
  /\ users = <<>> /\ msgs = <<>> /\ dates = <<>> /\ times = <<>>
  /\ data = <<>> /\ n = 1
  /\ self_data = <<>> /\ total_msgs = 0
  /\ error = "none"
  /\ ret = NoRet
  /\ saved = <<>> /\ loaded = <<>> /\ extract_calls = 0
  /\ disk0 = disk
  /\ last_saved = [name \in FileNames |-> <<>>]
  /\ save_count = [name \in FileNames |-> 0]
  /\ cache_whole = TRUE
  /\ prev = NoPrev

(***************************************************************************)
(* __init__, lines 18-39.                                                  *)
(***************************************************************************)
\* Branch as it would be if the constructor extracted whatever the flag says
Branch_AlwaysExtracts(g) == "extract1"

\* line 27: the branch get_data selects
Branch(g) == IF g THEN "extract1" ELSE "load"

\* a new process runs the constructor on document doc with get_data = g
Construct(doc, g) ==
  /\ pc \in {"idle", "done", "failed"}
  /\ run < MaxRuns
  /\ run' = run + 1
  /\ prev' = [pc |-> pc, get_data |-> get_data,
              self_data |-> self_data, total_msgs |-> total_msgs]
  /\ html_file' = doc
  /\ get_data' = g
  /\ pc' = Branch(g)
  /\ thread_i' = 1 /\ chat_i' = 1
  /\ users' = <<>> /\ msgs' = <<>> /\ dates' = <<>> /\ times' = <<>>
  /\ data' = <<>> /\ n' = 1
  /\ self_data' = <<>> /\ total_msgs' = 0
  /\ error' = "none"
  /\ ret' = NoRet
  /\ saved' = <<>> /\ loaded' = <<>> /\ extract_calls' = 0
  /\ disk0' = disk
  /\ UNCHANGED <<disk, last_saved, save_count, cache_whole>>

(***************************************************************************)
(* extract_data_from_html_file, lines 56-81.                               *)
(***************************************************************************)
\* lines 67-73: the four fields of one message element; ok = FALSE is the
\* ValueError of strptime
ParseChat(chat) ==
  LET full_date == StrptimeFull(Replace(chat.meta, <<"+","0","1">>))
  IN  [ok |-> full_date.ok,
       user |-> PyStr(chat.user),
       msg |-> PyStr(chat.text),
       date |-> StrftimeDate(full_date),
       time |-> StrftimeTime(full_date)]

\* AppendRecord as it would be if a message with no text were left out of msgs
AppendRecord_SkipsMissingText(lists, rec) ==
  <<Append(lists[1], rec.user),
    IF rec.msg = "None" THEN lists[2] ELSE Append(lists[2], rec.msg),
    Append(lists[3], rec.date), Append(lists[4], rec.time)>>

\* AppendRecord as it would be if records were put at the front of the lists
AppendRecord_Prepends(lists, rec) ==
  <<(<<rec.user>>) \o lists[1], (<<rec.msg>>) \o lists[2],
    (<<rec.date>>) \o lists[3], (<<rec.time>>) \o lists[4]>>

\* lines 75-78 on the lists <<users, msgs, dates, times>>
AppendRecord(lists, rec) ==
  <<Append(lists[1], rec.user), Append(lists[2], rec.msg),
    Append(lists[3], rec.date), Append(lists[4], rec.time)>>

Extracting == pc \in {"extract1", "extract2"}

\* ExtractChat as it would be if a message whose timestamp does not parse
\* were passed over and the loop went on
ExtractChat_SkipsMalformed ==
  /\ Extracting
  /\ thread_i <= Len(html_file)
  /\ chat_i <= Len(html_file[thread_i])
  /\ LET rec == ParseChat(html_file[thread_i][chat_i])
         lists == AppendRecord(<<users, msgs, dates, times>>, rec)
     IN  IF rec.ok
         THEN /\ users' = lists[1] /\ msgs' = lists[2]
              /\ dates' = lists[3] /\ times' = lists[4]
         ELSE UNCHANGED <<users, msgs, dates, times>>
  /\ chat_i' = chat_i + 1
  /\ UNCHANGED <<pc, error, thread_i, data, n, self_data, total_msgs, ret, disk,
                 saved, loaded, extract_calls, last_saved, save_count, cache_whole>>
  /\ UNCHANGED callVars

\* one pass of the inner loop, lines 65-78
ExtractChat ==
  /\ Extracting
  /\ thread_i <= Len(html_file)
  /\ chat_i <= Len(html_file[thread_i])
  /\ LET rec == ParseChat(html_file[thread_i][chat_i])
         lists == AppendRecord(<<users, msgs, dates, times>>, rec)
     IN  IF rec.ok
         THEN /\ users' = lists[1] /\ msgs' = lists[2]
              /\ dates' = lists[3] /\ times' = lists[4]
              /\ chat_i' = chat_i + 1
              /\ UNCHANGED <<pc, error>>
         ELSE /\ pc' = "failed"
              /\ error' = "ValueError"
              /\ UNCHANGED <<users, msgs, dates, times, chat_i>>
  /\ UNCHANGED <<thread_i, data, n, self_data, total_msgs, ret, disk,
                 saved, loaded, extract_calls, last_saved, save_count, cache_whole>>
  /\ UNCHANGED callVars

\* the inner loop is exhausted: the next thread of line 63
ExtractNextThread ==
  /\ Extracting
  /\ thread_i <= Len(html_file)
  /\ chat_i > Len(html_file[thread_i])
  /\ thread_i' = thread_i + 1
  /\ chat_i' = 1
  /\ UNCHANGED <<users, msgs, dates, times, pc, error, data, n, self_data, total_msgs,
                 ret, disk, saved, loaded, extract_calls, last_saved, save_count,
                 cache_whole>>
  /\ UNCHANGED callVars

\* line 81; the constructor drops the result of its first call (line 28),
\* calls again and binds the result of the second (line 29)
ExtractReturn ==
  /\ Extracting
  /\ thread_i > Len(html_file)
  /\ extract_calls' = extract_calls + 1
  /\ IF pc = "extract1"
     THEN /\ pc' = "extract2"
          /\ UNCHANGED <<data, n>>
     ELSE /\ pc' = "save"
          /\ data' = <<users, msgs, dates, times>>
          /\ n' = 1
  /\ thread_i' = 1 /\ chat_i' = 1
  /\ users' = <<>> /\ msgs' = <<>> /\ dates' = <<>> /\ times' = <<>>
  /\ UNCHANGED <<error, self_data, total_msgs, ret, disk, saved, loaded,
                 last_saved, save_count, cache_whole>>
  /\ UNCHANGED callVars

(***************************************************************************)
(* The cache, lines 31-36 and 42-53.                                       *)
(***************************************************************************)
\* SavedList as it would be if line 32 passed data[0] for every name
SavedList_First(d, k) == d[1]

\* line 32: the list passed to save_pickle for the k-th name
SavedList(d, k) == d[k]

\* lines 31-32 and 43-46: save_pickle(data[n], name)
SavePickle ==
  /\ pc = "save"
  /\ n <= 4
  /\ LET name == pickle_file_names[n]
     IN  /\ disk' = WriteFile(disk, name, PickleDump(SavedList(data, n)))
         /\ saved' = Append(saved, name)
         /\ last_saved' = [last_saved EXCEPT ![name] = SavedList(data, n)]
         /\ save_count' = [save_count EXCEPT ![name] = @ + 1]
  /\ cache_whole' = (n = 4)
  /\ n' = n + 1
  /\ UNCHANGED <<pc, error, data, self_data, total_msgs, ret, loaded, extract_calls>>
  /\ UNCHANGED extractVars
  /\ UNCHANGED callVars

\* save_pickle raises (the IOFailure of the cache): open fails and the file
\* stays as it was, or the write fails after open emptied the file
SaveFail ==
  /\ pc = "save"
  /\ n <= 4
  /\ \/ UNCHANGED <<disk, cache_whole>>
     \/ /\ disk' = Truncate(disk, pickle_file_names[n])
        /\ cache_whole' = FALSE
  /\ pc' = "failed"
  /\ error' = "OSError"
  /\ UNCHANGED <<n, data, self_data, total_msgs, ret, saved, loaded, extract_calls,
                 last_saved, save_count>>
  /\ UNCHANGED extractVars
  /\ UNCHANGED callVars

\* lines 35-36 and 50-53: data.append(load_pickle(name))
LoadPickle ==
  /\ pc = "load"
  /\ n <= 4
  /\ LET name == pickle_file_names[n]
         obj == PickleLoad(disk[name].bytes)
     IN  IF ~disk[name].exists
         THEN /\ pc' = "failed" /\ error' = "FileNotFoundError"
              /\ UNCHANGED <<data, n, loaded>>
         ELSE IF ~obj.ok
         THEN /\ pc' = "failed" /\ error' = "EOFError"
              /\ UNCHANGED <<data, n, loaded>>
         ELSE /\ data' = Append(data, obj.value)
              /\ loaded' = Append(loaded, name)
              /\ n' = n + 1
              /\ UNCHANGED <<pc, error>>
  /\ UNCHANGED <<disk, self_data, total_msgs, ret, saved, extract_calls,
                 last_saved, save_count, cache_whole>>
  /\ UNCHANGED extractVars
  /\ UNCHANGED callVars

\* lines 38-39
Finish ==
  /\ pc \in {"save", "load"}
  /\ n > 4
  /\ self_data' = data
  /\ total_msgs' = Len(data[1])
  /\ pc' = "done"
  /\ UNCHANGED <<data, n, error, ret, disk, saved, loaded, extract_calls,
                 last_saved, save_count, cache_whole>>
  /\ UNCHANGED extractVars
  /\ UNCHANGED callVars

\* runs in either mode over the documents RunDocs, one after the other, on
\* the same pickles/ directory
Next ==
  \/ \E doc \in RunDocs, g \in BOOLEAN : Construct(doc, g)
  \/ ExtractChat
  \/ ExtractNextThread
  \/ ExtractReturn
  \/ SavePickle
  \/ SaveFail
  \/ LoadPickle
  \/ Finish

Spec == Init /\ [][Next]_vars

\* one run with get_data = True over each document of Documents
NextExtract ==
  \/ \E doc \in Documents : run = 0 /\ Construct(doc, TRUE)
  \/ ExtractChat
  \/ ExtractNextThread
  \/ ExtractReturn
  \/ SavePickle
  \/ Finish

SpecExtract == Init /\ [][NextExtract]_vars

(***************************************************************************)
(* The statistics, lines 103-145.  Each call is one step; ret records its *)
(* arguments, the exception it raised ("none" when it returned), what it  *)
(* printed or plotted, and the quantities it computed on the way.         *)
(***************************************************************************)
Units == {"day", "week", "month", "year"}

UnitArgs == Units \cup {"century"}

SecondsPerDay == 86400

DatePool == { <<"1","5","/","0","3","/","2","3">>, <<"1","4","/","0","3","/","2","3">>, <<"2","0","/","0","1","/","2","3">> }

TimePool == { <<"0","9",":","1","5">>, <<"0","9",":","4","5">>,
              <<"1","0",":","0","5">> }

\* dt2 moved by k calendar months, the day cut to the month's length
AddMonths(d, k) ==
  LET t == d.year * 12 + (d.month - 1) + k
      y == t \div 12
      m == (t % 12) + 1
  IN  [year |-> y, month |-> m,
       day |-> IF d.day > DaysInMonth(y, m) THEN DaysInMonth(y, m) ELSE d.day]

Ordinal(d) == ToOrdinal(d.year, d.month, d.day)

\* the loop of relativedelta(dt1, dt2) that settles the whole months between
RECURSIVE SettleMonths(_, _, _)
SettleMonths(dt1, dt2, months) ==
  LET dtm == AddMonths(dt2, months)
  IN  IF Ordinal(dt1) < Ordinal(dt2)
      THEN (IF Ordinal(dt1) > Ordinal(dtm) THEN SettleMonths(dt1, dt2, months + 1)
            ELSE months)
      ELSE (IF Ordinal(dt1) < Ordinal(dtm) THEN SettleMonths(dt1, dt2, months - 1)
            ELSE months)

\* relativedelta.relativedelta(dt1, dt2): its years and months
RelativeDelta(dt1, dt2) ==
  LET m == SettleMonths(dt1, dt2,
                        (dt1.year - dt2.year) * 12 + (dt1.month - dt2.month))
      a == IF m < 0 THEN -m ELSE m
      sg == IF m < 0 THEN -1 ELSE 1
  IN  [years |-> sg * (a \div 12), months |-> sg * (a % 12)]

\* math.ceil(k / 7)
CeilDiv7(k) == -((-k) \div 7)

\* lines 113-120
Interval(unit_time, delta_days, delta_du) ==
  IF unit_time = "day" THEN delta_days
  ELSE IF unit_time = "week" THEN CeilDiv7(delta_days)
  ELSE IF unit_time = "month" THEN delta_du.years * 12 + delta_du.months
  ELSE delta_du.years

\* calculate_average_messages_per_unit_time(dates, unit_time), lines 103-123
AverageCall(dts, unit_time) ==
  LET base == [op |-> "average", dates |-> dts, unit_time |-> unit_time,
               raised |-> "none", printed |-> "nothing", computed |-> {},
               value |-> <<0, 1>>]
  IN  IF dts = <<>> THEN [base EXCEPT !.raised = "IndexError"]
      ELSE LET first_date == StrptimeDate(dts[Len(dts)])
               last_date == StrptimeDate(dts[1])
           IN  IF ~first_date.ok \/ ~last_date.ok
               THEN [base EXCEPT !.raised = "ValueError"]
               ELSE LET delta_days == Ordinal(last_date) - Ordinal(first_date)
                        delta_du == RelativeDelta(last_date, first_date)
                        interval == Interval(unit_time, delta_days, delta_du)
                    IN  IF unit_time \notin Units
                        THEN [base EXCEPT !.printed = "[ERROR]: Please choose a correct value for unit_time",
                                          !.computed = {"delta_dt", "delta_du"}]
                        ELSE IF interval = 0
                        THEN [base EXCEPT !.raised = "ZeroDivisionError",
                                          !.computed = {"delta_dt", "delta_du", "interval"}]
                        ELSE [base EXCEPT !.printed = "[INFO]: Average Messages",
                                          !.computed = {"delta_dt", "delta_du", "interval",
                                                        "avg_messages_per_day"},
                                          !.value = <<total_msgs, interval>>]

calculate_average_messages_per_unit_time ==
  /\ pc = "done"
  /\ \E dts \in SeqsUpTo(DatePool, MaxAvgDates), unit_time \in UnitArgs :
       ret' = AverageCall(dts, unit_time)
  /\ UNCHANGED <<disk, pc, data, n, self_data, total_msgs, error, saved, loaded,
                 extract_calls, last_saved, save_count, cache_whole>>
  /\ UNCHANGED extractVars
  /\ UNCHANGED callVars

\* the keys of dict(Counter(xs)): the distinct elements in order of first occurrence
RECURSIVE CounterKeys(_)
CounterKeys(xs) ==
  IF xs = <<>> THEN <<>>
  ELSE LET init == CounterKeys(SubSeq(xs, 1, Len(xs) - 1))
           x == xs[Len(xs)]
       IN  IF \E i \in 1..Len(init) : init[i] = x THEN init ELSE Append(init, x)

\* Counter(xs)[x]
RECURSIVE CounterGet(_, _)
CounterGet(xs, x) ==
  IF xs = <<>> THEN 0
  ELSE (IF Head(xs) = x THEN 1 ELSE 0) + CounterGet(Tail(xs), x)

\* max(keys, key=...): the first key no later key beats
RECURSIVE MaxKeyFrom(_, _, _)
MaxKeyFrom(keys, xs, best) ==
  IF keys = <<>> THEN best
  ELSE MaxKeyFrom(Tail(keys), xs,
                  IF CounterGet(xs, Head(keys)) > CounterGet(xs, best)
                  THEN Head(keys) ELSE best)

\* MaxKey as it would be if the first key were taken
MaxKey_First(keys, xs) == Head(keys)

MaxKey(keys, xs) == MaxKeyFrom(Tail(keys), xs, Head(keys))

\* max(dates_freq.values())
RECURSIVE MaxValue(_, _)
MaxValue(keys, xs) ==
  IF Len(keys) = 1 THEN CounterGet(xs, keys[1])
  ELSE LET rest == MaxValue(Tail(keys), xs)
           here == CounterGet(xs, Head(keys))
       IN  IF here >= rest THEN here ELSE rest

\* find_most_active_day(dates), lines 127-135
MostActiveCall(dts) ==
  LET base == [op |-> "most_active_day", dates |-> dts, raised |-> "none",
               date |-> <<>>, num_msgs |-> 0, seconds_per_msg |-> <<0, 1>>]
      dates_freq == CounterKeys(dts)
  IN  IF dts = <<>> THEN [base EXCEPT !.raised = "ValueError"]
      ELSE LET num == MaxValue(dates_freq, dts)
           IN  [base EXCEPT !.date = MaxKey(dates_freq, dts),
                            !.num_msgs = num,
                            !.seconds_per_msg = <<SecondsPerDay, num>>]

find_most_active_day ==
  /\ pc = "done"
  /\ \E dts \in SeqsUpTo(DatePool, MaxDates) : ret' = MostActiveCall(dts)
  /\ UNCHANGED <<disk, pc, data, n, self_data, total_msgs, error, saved, loaded,
                 extract_calls, last_saved, save_count, cache_whole>>
  /\ UNCHANGED extractVars
  /\ UNCHANGED callVars

\* x placed into the sorted list ys after the elements that are not greater
RECURSIVE Insert(_, _)
Insert(ys, x) ==
  IF ys = <<>> THEN <<x>>
  ELSE IF StrLess(x, Head(ys)) THEN <<x>> \o ys
  ELSE <<Head(ys)>> \o Insert(Tail(ys), x)

RECURSIVE InsertAll(_, _)
InsertAll(ys, xs) ==
  IF xs = <<>> THEN ys ELSE InsertAll(Insert(ys, Head(xs)), Tail(xs))

\* Sorted as it would be if line 139 were missing
Sorted_Unsorted(xs) == xs

\* sorted(times), line 139: ascending and stable
Sorted(xs) == InsertAll(<<>>, xs)

\* x[:2]
HourKey(x) == SubSeq(x, 1, IF Len(x) < 2 THEN Len(x) ELSE 2)

\* itertools.groupby(xs, key): one group per run of equal keys, as <<key, size>>
RECURSIVE GroupBy(_, _)
GroupBy(xs, acc) ==
  IF xs = <<>> THEN acc
  ELSE LET k == HourKey(Head(xs))
           last == Len(acc)
       IN  IF last > 0 /\ acc[last][1] = k
           THEN GroupBy(Tail(xs), [acc EXCEPT ![last] = <<k, acc[last][2] + 1>>])
           ELSE GroupBy(Tail(xs), Append(acc, <<k, 1>>))

\* plot_total_msgs_per_hour(times, ...), lines 138-154
PlotCall(tms) ==
  LET groups == GroupBy(Sorted(tms), <<>>)
      hours == [i \in 1..Len(groups) |-> groups[i][1]]
      msgs_per_hour == [i \in 1..Len(groups) |-> groups[i][2]]
  IN  [op |-> "plot", times |-> tms, raised |-> "none",
       hours |-> hours, msgs_per_hour |-> msgs_per_hour,
       xticks |-> hours, xlim |-> <<0, Len(hours) - 1>>]

plot_total_msgs_per_hour ==
  /\ pc = "done"
  /\ \E tms \in SeqsUpTo(TimePool, MaxTimes) : ret' = PlotCall(tms)
  /\ UNCHANGED <<disk, pc, data, n, self_data, total_msgs, error, saved, loaded,
                 extract_calls, last_saved, save_count, cache_whole>>
  /\ UNCHANGED extractVars
  /\ UNCHANGED callVars

\* one run with get_data = True, then any statistics calls on the instance
NextStats ==
  \/ \E doc \in RunDocs : run = 0 /\ Construct(doc, TRUE)
  \/ ExtractChat
  \/ ExtractNextThread
  \/ ExtractReturn
  \/ SavePickle
  \/ Finish
  \/ calculate_average_messages_per_unit_time
  \/ find_most_active_day
  \/ plot_total_msgs_per_hour

SpecStats == Init /\ [][NextStats]_vars

(***************************************************************************)
(* Properties.                                                             *)
(***************************************************************************)
SendersFile == pickle_file_names[1]

TimesFile == pickle_file_names[4]

RECURSIVE Flatten(_)
Flatten(doc) == IF doc = <<>> THEN <<>> ELSE Head(doc) \o Flatten(Tail(doc))

\* the record each well-formed message element of Chats stands for
ExpectedRecord(chat) ==
  CASE chat = Chat1 ->
         [user |-> "Alice", msg |-> "hi there", date |-> <<"1","5","/","0","3","/","2","3">>, time |-> <<"0","9",":","1","5">>]
    [] chat = Chat2 ->
         [user |-> "Bob", msg |-> "None", date |-> <<"1","4","/","0","3","/","2","3">>, time |-> <<"1","0",":","0","5">>]

Malformed(chat) == ~ParseChat(chat).ok

HasMalformed(doc) ==
  \E t \in 1..Len(doc) : \E c \in 1..Len(doc[t]) : Malformed(doc[t][c])

EqualLengths ==
  /\ Len(self_data) = 4
  /\ \A i \in 1..4 : Len(self_data[i]) = total_msgs

Occurrences(xs, x) == Cardinality({i \in 1..Len(xs) : xs[i] = x})

RECURSIVE Sum(_)
Sum(xs) == IF xs = <<>> THEN 0 ELSE Head(xs) + Sum(Tail(xs))

\* C1: once extract_data_from_html_file has returned, its four lists have the
\* same length, and that length is the number of message elements of the
\* document.
C1_EqualLengths ==
  pc \in {"save", "done"} =>
    /\ Len(data) = 4
    /\ \A i \in 1..4 : Len(data[i]) = CountMessages(html_file)

C1_Witness ==
  /\ pc = "save" /\ n = 1
  /\ Len(html_file) = 2
  /\ CountMessages(html_file) = 2
  /\ Len(data[1]) = 2 /\ Len(data[2]) = 2 /\ Len(data[3]) = 2 /\ Len(data[4]) = 2

\* C2: what load_pickle(name) returns is the list of the last save_pickle
\* completed for name: in every state the file of a saved name unpickles to
\* that list, and a run in cache mode holds exactly those lists, also when
\* the name was saved more than once.
C2_LoadReturnsLastSaved ==
  /\ \A name \in FileNames :
       (save_count[name] > 0 /\ disk[name].bytes # <<>>) =>
         PickleLoad(disk[name].bytes) = [ok |-> TRUE, value |-> last_saved[name]]
  /\ (~get_data /\ pc \in {"load", "done"}) =>
       \A i \in 1..Len(data) : data[i] = last_saved[pickle_file_names[i]]

C2_Witness ==
  /\ pc = "done" /\ ~get_data
  /\ save_count[SendersFile] = 2
  /\ Len(loaded) = 4
  /\ self_data[1] = <<"Bob">>
  /\ last_saved[SendersFile] = <<"Bob">>

C4_OneModePerRun ==
  /\ get_data => loaded = <<>>
  /\ (~get_data) => (saved = <<>> /\ extract_calls = 0 /\ ~Extracting /\ disk = disk0)
  /\ \A i \in 1..Len(saved) : saved[i] = pickle_file_names[i]
  /\ \A i \in 1..Len(loaded) : loaded[i] = pickle_file_names[i]
  /\ (pc = "done" /\ get_data) => saved = pickle_file_names
  /\ (pc = "done" /\ ~get_data) => loaded = pickle_file_names

C4_Witness ==
  /\ pc = "done" /\ ~get_data
  /\ loaded = pickle_file_names /\ saved = <<>>
  /\ prev.pc = "done" /\ prev.get_data
  /\ total_msgs = 1

\* C5: a run that extracts a document with a message whose timestamp does
\* not parse never gets past its first extraction: it stops with ValueError
\* at such a message, binds no dataset, saves no name and leaves every cache
\* file as the run found it.
C5_MalformedTimestampAborts ==
  (get_data /\ HasMalformed(html_file)) =>
    /\ pc \in {"extract1", "failed"}
    /\ extract_calls = 0
    /\ data = <<>> /\ self_data = <<>>
    /\ saved = <<>>
    /\ disk = disk0
    /\ pc = "failed" =>
         (error = "ValueError" /\ Malformed(html_file[thread_i][chat_i]))

C5_Witness ==
  /\ pc = "failed" /\ error = "ValueError"
  /\ get_data
  /\ Len(users) = 1
  /\ data = <<>>
  /\ disk[SendersFile].exists /\ disk[SendersFile].bytes # <<>>
  /\ disk = disk0

\* C6 as stated: a call of calculate_average_messages_per_unit_time with a
\* unit_time outside day, week, month, year, on any dates (the empty list
\* too), raises nothing, computes nothing, prints the validation message and
\* leaves self.data, total_msgs and the cache files as they were.
C6_InvalidUnitOnlyReported ==
  [][ (ret'.op = "average" /\ ret'.unit_time \notin Units) =>
        /\ ret'.raised = "none"
        /\ ret'.computed = {}
        /\ ret'.printed = "[ERROR]: Please choose a correct value for unit_time"
        /\ UNCHANGED <<self_data, total_msgs, disk>> ]_vars

\* C7: the records come in document order, one per message element: the
\* i-th entry of each of the four lists is the sender, the text, the date
\* and the time of the i-th message element of the document, threads taken
\* in order and messages in order within each thread.
C7_DocumentOrder ==
  pc \in {"save", "done"} =>
    LET flat == Flatten(html_file)
    IN  /\ \A k \in 1..4 : Len(data[k]) = Len(flat)
        /\ \A i \in 1..Len(flat) :
             /\ data[1][i] = ExpectedRecord(flat[i]).user
             /\ data[2][i] = ExpectedRecord(flat[i]).msg
             /\ data[3][i] = ExpectedRecord(flat[i]).date
             /\ data[4][i] = ExpectedRecord(flat[i]).time

C7_Witness ==
  /\ pc = "done"
  /\ html_file = << <<Chat2>>, <<Chat1>> >>
  /\ self_data[1] = <<"Bob", "Alice">>
  /\ self_data[2] = <<"None", "hi there">>
  /\ self_data[3] = << <<"1","4","/","0","3","/","2","3">>, <<"1","5","/","0","3","/","2","3">> >>
  /\ self_data[4] = << <<"1","0",":","0","5">>, <<"0","9",":","1","5">> >>

\* C8: on a non-empty list, find_most_active_day reports a date of the list
\* and a count such that the count is the number of occurrences of that date
\* and no date occurs more often; 15/03/23, 15/03/23, 14/03/23 gives
\* 15/03/23 with 2.
C8_MostActiveDay ==
  (ret.op = "most_active_day" /\ ret.dates # <<>>) =>
    /\ ret.raised = "none"
    /\ \E i \in 1..Len(ret.dates) : ret.dates[i] = ret.date
    /\ ret.num_msgs = Occurrences(ret.dates, ret.date)
    /\ \A i \in 1..Len(ret.dates) : Occurrences(ret.dates, ret.dates[i]) <= ret.num_msgs
    /\ ret.dates = << <<"1","5","/","0","3","/","2","3">>, <<"1","5","/","0","3","/","2","3">>, <<"1","4","/","0","3","/","2","3">> >> =>
         (ret.date = <<"1","5","/","0","3","/","2","3">> /\ ret.num_msgs = 2)

C8_Witness ==
  /\ ret.op = "most_active_day"
  /\ ret.dates = << <<"1","4","/","0","3","/","2","3">>, <<"1","5","/","0","3","/","2","3">>, <<"1","5","/","0","3","/","2","3">> >>
  /\ ret.date = <<"1","5","/","0","3","/","2","3">>
  /\ ret.num_msgs = 2

\* C9: the buckets of plot_total_msgs_per_hour are the distinct hour
\* prefixes of the times, one bucket each, in ascending order, each with the
\* number of times of that hour, the counts adding up to the number of
\* times; 09:15, 09:45, 10:05 gives 09 with 2, then 10 with 1.
C9_HourBuckets ==
  ret.op = "plot" =>
    LET h == ret.hours
        c == ret.msgs_per_hour
        tms == ret.times
    IN  /\ Len(h) = Len(c)
        /\ \A i \in 1..Len(tms) : \E j \in 1..Len(h) : h[j] = HourKey(tms[i])
        /\ \A j \in 1..Len(h) :
             /\ c[j] > 0
             /\ c[j] = Cardinality({i \in 1..Len(tms) : HourKey(tms[i]) = h[j]})
        /\ \A j \in 1..(Len(h) - 1) : StrLess(h[j], h[j + 1])
        /\ Sum(c) = Len(tms)
        /\ tms = << <<"0","9",":","1","5">>, <<"0","9",":","4","5">>, <<"1","0",":","0","5">> >> =>
             (h = << <<"0","9">>, <<"1","0">> >> /\ c = <<2, 1>>)

C9_Witness ==
  /\ ret.op = "plot"
  /\ ret.times = << <<"1","0",":","0","5">>, <<"0","9",":","1","5">>, <<"0","9",":","4","5">> >>
  /\ ret.hours = << <<"0","9">>, <<"1","0">> >>
  /\ ret.msgs_per_hour = <<2, 1>>

\* C10: a completed run with get_data = True has extracted twice before its
\* first save, saved each of the four names once, and keeps as self.data
\* the very lists it saved; a completed run with get_data = False that
\* follows it holds the same self.data and the same total_msgs.
C10_CacheRunRepeatsExtractRun ==
  /\ (pc = "done" /\ get_data) =>
       /\ saved = pickle_file_names
       /\ \A i \in 1..4 : last_saved[pickle_file_names[i]] = self_data[i]
  /\ (get_data /\ saved # <<>>) => (extract_calls = 2 /\ ~Extracting)
  /\ (pc = "done" /\ ~get_data /\ prev.pc = "done" /\ prev.get_data) =>
       (self_data = prev.self_data /\ total_msgs = prev.total_msgs)

C10_Witness ==
  /\ pc = "done" /\ ~get_data
  /\ prev.pc = "done" /\ prev.get_data
  /\ prev.total_msgs = 2 /\ total_msgs = 2
  /\ self_data[1] = <<"Alice", "Bob">>

====
